---- MODULE Spec2Model ----
(***************************************************************************)
(* Model of the tenpy_notebooks repository:                                *)
(*   - the "Test notebooks" GitHub Actions workflow (triggers, the build   *)
(*     job's condition, its five steps, the notebooks pytest runs);        *)
(*   - the cells of the segment-boundary DMRG notebook, executed top to    *)
(*     bottom in one kernel.                                               *)
(* Runs of the workflow share no state and the workflow sets no            *)
(* concurrency group, so the model follows one run at a time: the next     *)
(* event is delivered once the previous run has reached a final status.    *)
(***************************************************************************)
EXTENDS Integers, Sequences, FiniteSets

VARIABLES
    pr,         \* the pull request: [state, draft]
    event,      \* payload of the event being handled (github.event)
    status,     \* status of the workflow run for that event
    step,       \* number of steps of the build job that have been started
    workspace,  \* files in the runner's working directory after Checkout
    executed,   \* notebooks executed by the pytest step
    pc,         \* notebook: execution count of the next code cell
    kernel,     \* notebook: "idle", "running", "error" or "done"
    ns,         \* notebook: the kernel's namespace (Python variables)
    out         \* notebook: what each displaying cell showed

wfvars == <<pr, event, status, step, workspace, executed>>
nbvars == <<pc, kernel, ns, out>>
vars == <<pr, event, status, step, workspace, executed, pc, kernel, ns, out>>

----------------------------------------------------------------------------
(* Files of a checked-out commit. A path is a directory below the          *)
(* repository root ("" is the root itself), a stem and an extension.       *)

File(d, s, e) == [dir |-> d, stem |-> s, ext |-> e]

Files ==
    { File("", "12_dmrg_mixer", "ipynb"),
      File("", "14_segment_half_infinite", "ipynb"),
      File("", "_template", "ipynb"),
      File("", "README", "md"),
      File("sub", "12_dmrg_mixer", "ipynb") }

----------------------------------------------------------------------------
(* Values of the workflow expression language and its loose equality.      *)

Null == [t |-> "null", b |-> FALSE, n |-> 0]
Bool(x) == [t |-> "bool", b |-> x, n |-> 0]
Number(k) == [t |-> "number", b |-> FALSE, n |-> k]

\* Coercion of a value to a number: null -> 0, true -> 1, false -> 0.
ToNumber(v) ==
    CASE v.t = "null" -> 0
      [] v.t = "bool" -> IF v.b THEN 1 ELSE 0
      [] OTHER -> v.n

\* The == operator: values of one type are compared as they are, values of
\* different types are first coerced to numbers.
LooseEqStrict(a, b) == a.t = b.t /\ a = b

LooseEq(a, b) ==
    IF a.t = b.t THEN a = b ELSE ToNumber(a) = ToNumber(b)

\* github.event.pull_request.draft: dereferencing a missing object gives null.
PullRequestDraft(ev) ==
    IF ev.pull_request.present THEN Bool(ev.pull_request.draft) ELSE Null

\* jobs.build.if: github.event.pull_request.draft == false
JobIfInverted(ev) == ~ LooseEq(PullRequestDraft(ev), Bool(FALSE))

JobIf(ev) == LooseEq(PullRequestDraft(ev), Bool(FALSE))

----------------------------------------------------------------------------
(* Events and the workflow's triggers.                                     *)

NoRef == [type |-> "none", name |-> ""]
Branch(b) == [type |-> "branch", name |-> b]
Tag(t) == [type |-> "tag", name |-> t]

PushRefs == { Branch("main"), Branch("dev"), Tag("main") }

NoPR == [present |-> FALSE, draft |-> FALSE]
PRPayload(d) == [present |-> TRUE, draft |-> d]

NoEvent == [name |-> "none", ref |-> NoRef, action |-> "", pull_request |-> NoPR]
PushEvent(r) == [name |-> "push", ref |-> r, action |-> "", pull_request |-> NoPR]
PREvent(a, d) ==
    [name |-> "pull_request", ref |-> NoRef, action |-> a, pull_request |-> PRPayload(d)]
OtherEvent(n) == [name |-> n, ref |-> NoRef, action |-> "", pull_request |-> NoPR]

OtherEventNames == { "issues", "workflow_dispatch" }

\* on.push.branches
push_branches == { "main" }

\* on.pull_request.types
pull_request_types_mut == { "opened", "synchronize", "reopened", "ready_for_review", "edited" }

pull_request_types == { "opened", "synchronize", "reopened", "ready_for_review" }

\* on: does the event start the workflow?
on(ev) ==
    \/ ev.name = "push" /\ ev.ref.type = "branch" /\ ev.ref.name \in push_branches
    \/ ev.name = "pull_request" /\ ev.action \in pull_request_types

----------------------------------------------------------------------------
(* The pytest step.                                                        *)

\* pytest --nbmake . collects every notebook below the working directory.
Collected(ws) == { f \in ws : f.ext = "ipynb" }

\* --ignore=PATH names paths relative to the working directory.
IgnoredWithTemplate ==
    { File("", "12_dmrg_mixer", "ipynb"),
      File("", "14_segment_half_infinite", "ipynb"),
      File("", "_template", "ipynb") }

Ignored ==
    { File("", "12_dmrg_mixer", "ipynb"),
      File("", "14_segment_half_infinite", "ipynb") }

NotebooksRunByStem(ws) ==
    { f \in Collected(ws) : f.stem \notin { i.stem : i \in Ignored } }

NotebooksRun(ws) == Collected(ws) \ Ignored

----------------------------------------------------------------------------
(* Delivery of an event: the trigger filter decides whether a run starts.  *)

Final == { "none", "not_triggered", "skipped", "success", "failure" }

Deliver(ev) ==
    /\ status \in Final
    /\ event' = ev
    /\ status' = IF on(ev) THEN "queued" ELSE "not_triggered"
    /\ step' = 0
    /\ workspace' = {}
    /\ executed' = {}
    /\ UNCHANGED nbvars

Push ==
    \E r \in PushRefs :
        /\ Deliver(PushEvent(r))
        /\ UNCHANGED pr

PROpen ==
    \E d \in BOOLEAN :
        /\ pr.state = "none"
        /\ pr' = [state |-> "open", draft |-> d]
        /\ Deliver(PREvent("opened", d))

PRSynchronize ==
    /\ pr.state = "open"
    /\ UNCHANGED pr
    /\ Deliver(PREvent("synchronize", pr.draft))

PREdit ==
    /\ pr.state = "open"
    /\ UNCHANGED pr
    /\ Deliver(PREvent("edited", pr.draft))

PRClose ==
    /\ pr.state = "open"
    /\ pr' = [pr EXCEPT !.state = "closed"]
    /\ Deliver(PREvent("closed", pr.draft))

PRReopen ==
    /\ pr.state = "closed"
    /\ pr' = [pr EXCEPT !.state = "open"]
    /\ Deliver(PREvent("reopened", pr.draft))

PRReadyForReview ==
    /\ pr.state = "open"
    /\ pr.draft
    /\ pr' = [pr EXCEPT !.draft = FALSE]
    /\ Deliver(PREvent("ready_for_review", FALSE))

PRConvertToDraft ==
    /\ pr.state = "open"
    /\ ~ pr.draft
    /\ pr' = [pr EXCEPT !.draft = TRUE]
    /\ Deliver(PREvent("converted_to_draft", TRUE))

Other ==
    \E n \in OtherEventNames :
        /\ Deliver(OtherEvent(n))
        /\ UNCHANGED pr

----------------------------------------------------------------------------
(* The build job.                                                          *)

\* The job's condition is evaluated when the run is picked up.
EvaluateJob ==
    /\ status = "queued"
    /\ status' = IF JobIf(event) THEN "in_progress" ELSE "skipped"
    /\ UNCHANGED <<pr, event, step, workspace, executed>>
    /\ UNCHANGED nbvars

\* A step that fails ends the job; the steps after it do not run.
StepResult(i, ok) ==
    /\ status = "in_progress"
    /\ step = i - 1
    /\ step' = i
    /\ status' = IF ~ ok THEN "failure" ELSE IF i = 5 THEN "success" ELSE "in_progress"
    /\ UNCHANGED nbvars

Checkout ==
    \E ok \in BOOLEAN, fs \in SUBSET Files :
        /\ StepResult(1, ok)
        /\ workspace' = IF ok THEN fs ELSE {}
        /\ UNCHANGED <<pr, event, executed>>

SetUpPython ==
    \E ok \in BOOLEAN :
        /\ StepResult(2, ok)
        /\ UNCHANGED <<pr, event, workspace, executed>>

InstallDependencies ==
    \E ok \in BOOLEAN :
        /\ StepResult(3, ok)
        /\ UNCHANGED <<pr, event, workspace, executed>>

BuildAndInstallTenpy ==
    \E ok \in BOOLEAN :
        /\ StepResult(4, ok)
        /\ UNCHANGED <<pr, event, workspace, executed>>

\* pytest runs every notebook it selected, whether or not one of them fails;
\* the step fails when a notebook fails or when nothing was selected.
RunPytestOnNotebooks ==
    \E pass \in BOOLEAN :
        /\ StepResult(5, pass /\ NotebooksRun(workspace) # {})
        /\ executed' = NotebooksRun(workspace)
        /\ UNCHANGED <<pr, event, workspace>>

----------------------------------------------------------------------------
(* The notebook on segment boundary conditions. Its code cells run in the  *)
(* order of their execution counts, 1 to 20, in one kernel; a cell that    *)
(* raises stops the execution. The tensors themselves are not modelled: a  *)
(* state keeps its boundary conditions, its sites, the infinite-DMRG       *)
(* sweeps its tensors come from and the segment sweeps applied to it.      *)

\* model_params['L']: sites of the infinite unit cell
UnitCellL == 2

\* M_i.extract_segment(enlarge=10)
enlarge == 10

\* DMRG checks convergence every N_sweeps_check sweeps and not before min_sweeps.
N_sweeps_check == 10
min_sweeps == 15

\* Convergence checks after which a DMRG run has converged at the latest.
MaxChecks == 3

NCells == 20

NoModel == [set |-> FALSE, bc |-> "", L |-> 0, first |-> 0, last |-> 0]

NoMPS ==
    [set |-> FALSE, bc |-> "", L |-> 0, first |-> 0, last |-> 0,
     gs_sweeps |-> 0, converged |-> FALSE, sweeps |-> 0, left |-> ""]

NoEnvData ==
    [set |-> FALSE, first |-> 0, last |-> 0, gs_sweeps |-> 0,
     converged |-> FALSE, LP |-> "", RP |-> ""]

NoEngine == [set |-> FALSE, L |-> 0, init_env_data |-> NoEnvData, sweeps |-> 0, finished |-> FALSE]

EmptyNamespace ==
    [M_i |-> NoModel, psi0_i |-> NoMPS, eng0_i |-> NoEngine,
     M_s |-> NoModel, psi0_s |-> NoMPS, init_env_data |-> NoEnvData,
     psi1_s |-> NoMPS, eng |-> NoEngine,
     psi_halfinf |-> NoMPS, init_env_data_halfinf |-> NoEnvData, eng_halfinf |-> NoEngine,
     M_s_defect |-> NoModel, psi_defect |-> NoMPS, eng_defect |-> NoEngine]

NoOutput == [c \in 1..NCells |-> -1]

\* TFIChain(model_params)
TFIChain(L, bc) == [set |-> TRUE, bc |-> bc, L |-> L, first |-> 0, last |-> L - 1]

\* M_i.extract_segment(enlarge=n): n unit cells, sites first..last of the chain
Model_extract_segment_one_more(M, n) ==
    [set |-> TRUE, bc |-> "segment", L |-> n * M.L + 1, first |-> 0, last |-> n * M.L]

Model_extract_segment(M, n) ==
    [set |-> TRUE, bc |-> "segment", L |-> (n * M.L - 1) - 0 + 1, first |-> 0, last |-> n * M.L - 1]

\* MPS.from_lat_product_state(M_i.lat, [['up']])
from_lat_product_state(M) ==
    [set |-> TRUE, bc |-> M.bc, L |-> M.L, first |-> M.first, last |-> M.last,
     gs_sweeps |-> 0, converged |-> FALSE, sweeps |-> 0, left |-> "env"]

\* psi0_i.extract_segment(first, last)
MPS_extract_segment(psi, first, last) ==
    [set |-> TRUE, bc |-> "segment", L |-> last - first + 1, first |-> first, last |-> last,
     gs_sweeps |-> psi.gs_sweeps, converged |-> psi.converged, sweeps |-> 0, left |-> "env"]

\* eng0_i.env.get_initialization_data(first, last): the environments to the
\* left of site first and to the right of site last, as the engine has them.
get_initialization_data_unit_cell(e, psi, first, last) ==
    [set |-> TRUE, first |-> psi.first, last |-> psi.last, gs_sweeps |-> e.sweeps,
     converged |-> e.finished, LP |-> "env", RP |-> "env"]

get_initialization_data(e, psi, first, last) ==
    [set |-> TRUE, first |-> first, last |-> last, gs_sweeps |-> e.sweeps,
     converged |-> e.finished, LP |-> "env", RP |-> "env"]

\* Bonds entanglement_entropy() reports: L-1 for a finite state, L for an
\* infinite one, L+1 for a segment (both boundaries of the segment included).
entanglement_entropy(psi) ==
    CASE psi.bc = "finite" -> psi.L - 1
      [] psi.bc = "infinite" -> psi.L
      [] OTHER -> psi.L + 1

\* expectation_value(op): one value per site
expectation_value(psi) == psi.L

\* Sweeps a DMRG run makes before it stops: a multiple of N_sweeps_check,
\* at least min_sweeps.
RunSweeps ==
    { k * N_sweeps_check : k \in { j \in 1..MaxChecks : j * N_sweeps_check >= min_sweeps } }

\* dmrg.TwoSiteDMRGEngine(psi, M, dmrg_params, resume_data={'init_env_data': d})
\* needs a state with the sites of the model.
CanConstruct(psi, M) == psi.set /\ M.set /\ psi.L = M.L

TwoSiteDMRGEngine(psi, M, d) ==
    [set |-> TRUE, L |-> M.L, init_env_data |-> d, sweeps |-> 0, finished |-> FALSE]

\* eng.run(): the engine after n sweeps
run(e, n) == [e EXCEPT !.sweeps = n, !.finished = TRUE]

Running(c) == kernel = "running" /\ pc = c

Advance == /\ pc' = pc + 1
           /\ kernel' = IF pc = NCells THEN "done" ELSE "running"

Raise == /\ pc' = pc
         /\ kernel' = "error"

\* cells 1-3: imports and logging setup
ImportCells ==
    /\ kernel = "running" /\ pc \in 1..3
    /\ Advance
    /\ UNCHANGED <<ns, out>>
    /\ UNCHANGED wfvars

\* cell 4: model_params, M_i
Cell4_M_i ==
    /\ Running(4)
    /\ ns' = [ns EXCEPT !.M_i = TFIChain(UnitCellL, "infinite")]
    /\ Advance
    /\ UNCHANGED out
    /\ UNCHANGED wfvars

\* cell 5: first dmrg run for the infinite lattice; the engine updates psi0_i
\* in place. A run that raises leaves the engine and the state unconverged.
Cell5_infinite_dmrg ==
    /\ Running(5)
    /\ LET psi == from_lat_product_state(ns.M_i)
           e == TwoSiteDMRGEngine(psi, ns.M_i, NoEnvData)
       IN \/ \E n \in RunSweeps :
                /\ ns' = [ns EXCEPT !.psi0_i = [psi EXCEPT !.gs_sweeps = n, !.converged = TRUE],
                                    !.eng0_i = run(e, n)]
                /\ Advance
          \/ /\ ns' = [ns EXCEPT !.psi0_i = psi, !.eng0_i = e]
             /\ Raise
    /\ UNCHANGED out
    /\ UNCHANGED wfvars

\* cells 6, 7: resume_psi0_i (a dict of two entries), psi0_i.entanglement_entropy()
Cell6_7_display ==
    /\ kernel = "running" /\ pc \in 6..7
    /\ out' = [out EXCEPT ![pc] = IF pc = 6 THEN 2 ELSE entanglement_entropy(ns.psi0_i)]
    /\ Advance
    /\ UNCHANGED ns
    /\ UNCHANGED wfvars

\* cell 8: the segment model, the segment state and the boundary environments
Cell8_extract_segment ==
    /\ Running(8)
    /\ LET M == Model_extract_segment(ns.M_i, enlarge)
           first == M.first
           last == M.last
           psi == MPS_extract_segment(ns.psi0_i, first, last)
       IN ns' = [ns EXCEPT !.M_s = M,
                           !.psi0_s = psi,
                           !.init_env_data = get_initialization_data(ns.eng0_i, ns.psi0_i, first, last),
                           !.psi1_s = psi]
    /\ Advance
    /\ UNCHANGED out
    /\ UNCHANGED wfvars

\* cell 9: DMRG on the segment with the environments of cell 8; the engine
\* updates psi1_s in place.
Cell9_segment_dmrg ==
    /\ Running(9)
    /\ IF CanConstruct(ns.psi1_s, ns.M_s)
       THEN LET e == TwoSiteDMRGEngine(ns.psi1_s, ns.M_s, ns.init_env_data)
            IN \/ \E n \in RunSweeps :
                     /\ ns' = [ns EXCEPT !.psi1_s.sweeps = n, !.eng = run(e, n)]
                     /\ Advance
               \/ /\ ns' = [ns EXCEPT !.eng = e]
                  /\ Raise
       ELSE /\ ns' = ns
            /\ Raise
    /\ UNCHANGED out
    /\ UNCHANGED wfvars

\* cells 10, 11: psi1_s.entanglement_entropy(), and the same minus a scalar
Cell10_11_display ==
    /\ kernel = "running" /\ pc \in 10..11
    /\ out' = [out EXCEPT ![pc] = entanglement_entropy(ns.psi1_s)]
    /\ Advance
    /\ UNCHANGED ns
    /\ UNCHANGED wfvars

\* cell 12: project the left boundary onto one Schmidt state and replace the
\* left environment by a trivial one (a copy of the dict: init_env_data stays).
Cell12_halfinf ==
    /\ Running(12)
    /\ ns' = [ns EXCEPT !.psi_halfinf = [ns.psi0_s EXCEPT !.left = "projected"],
                        !.init_env_data_halfinf = [ns.init_env_data EXCEPT !.LP = "trivial"]]
    /\ Advance
    /\ UNCHANGED out
    /\ UNCHANGED wfvars

\* cell 13: DMRG for the half-infinite chain
Cell13_halfinf_dmrg ==
    /\ Running(13)
    /\ IF CanConstruct(ns.psi_halfinf, ns.M_s)
       THEN LET e == TwoSiteDMRGEngine(ns.psi_halfinf, ns.M_s, ns.init_env_data_halfinf)
            IN \/ \E n \in RunSweeps :
                     /\ ns' = [ns EXCEPT !.psi_halfinf.sweeps = n, !.eng_halfinf = run(e, n)]
                     /\ Advance
               \/ /\ ns' = [ns EXCEPT !.eng_halfinf = e]
                  /\ Raise
       ELSE /\ ns' = ns
            /\ Raise
    /\ UNCHANGED out
    /\ UNCHANGED wfvars

\* cells 14-16: psi_halfinf.entanglement_entropy(),
\* psi_halfinf.expectation_value('Sigmaz'), psi_halfinf.L
Cell14_16_display ==
    /\ kernel = "running" /\ pc \in 14..16
    /\ out' = [out EXCEPT ![pc] =
                 CASE pc = 14 -> entanglement_entropy(ns.psi_halfinf)
                   [] pc = 15 -> expectation_value(ns.psi_halfinf)
                   [] OTHER -> ns.psi_halfinf.L]
    /\ Advance
    /\ UNCHANGED ns
    /\ UNCHANGED wfvars

\* cell 17: the segment model with a modified field on its first site
Cell17_M_s_defect ==
    /\ Running(17)
    /\ ns' = [ns EXCEPT !.M_s_defect = TFIChain(ns.psi_halfinf.L, "segment")]
    /\ Advance
    /\ UNCHANGED out
    /\ UNCHANGED wfvars

\* cell 18: DMRG with the defect model on a copy of psi_halfinf
Cell18_defect_dmrg ==
    /\ Running(18)
    /\ LET psi == ns.psi_halfinf
       IN IF CanConstruct(psi, ns.M_s_defect)
          THEN LET e == TwoSiteDMRGEngine(psi, ns.M_s_defect, ns.init_env_data_halfinf)
               IN \/ \E n \in RunSweeps :
                        /\ ns' = [ns EXCEPT !.psi_defect = [psi EXCEPT !.sweeps = psi.sweeps + n],
                                            !.eng_defect = run(e, n)]
                        /\ Advance
                  \/ /\ ns' = [ns EXCEPT !.psi_defect = psi, !.eng_defect = e]
                     /\ Raise
          ELSE /\ ns' = [ns EXCEPT !.psi_defect = psi]
               /\ Raise
    /\ UNCHANGED out
    /\ UNCHANGED wfvars

\* cells 19, 20: psi_defect.entanglement_entropy(), psi_defect.expectation_value('Sigmaz')
Cell19_20_display ==
    /\ kernel = "running" /\ pc \in 19..20
    /\ out' = [out EXCEPT ![pc] =
                 IF pc = 19 THEN entanglement_entropy(ns.psi_defect)
                 ELSE expectation_value(ns.psi_defect)]
    /\ Advance
    /\ UNCHANGED ns
    /\ UNCHANGED wfvars

----------------------------------------------------------------------------
WorkflowInit ==
    /\ pr = [state |-> "none", draft |-> FALSE]
    /\ event = NoEvent
    /\ status = "none"
    /\ step = 0
    /\ workspace = {}
    /\ executed = {}

NotebookIdle ==
    /\ pc = 0
    /\ kernel = "idle"
    /\ ns = EmptyNamespace
    /\ out = NoOutput

\* Restart Kernel and Run All Cells
NotebookStart ==
    /\ pc = 1
    /\ kernel = "running"
    /\ ns = EmptyNamespace
    /\ out = NoOutput

Init == WorkflowInit /\ NotebookIdle

Next ==
    \/ Push
    \/ PROpen
    \/ PRSynchronize
    \/ PREdit
    \/ PRClose
    \/ PRReopen
    \/ PRReadyForReview
    \/ PRConvertToDraft
    \/ Other
    \/ EvaluateJob
    \/ Checkout
    \/ SetUpPython
    \/ InstallDependencies
    \/ BuildAndInstallTenpy
    \/ RunPytestOnNotebooks

Spec == Init /\ [][Next]_vars

\* A queued run is picked up by a runner.
FairSpec == Init /\ [][Next]_vars /\ WF_vars(EvaluateJob)

NotebookInit == WorkflowInit /\ NotebookStart

NotebookNext ==
    \/ ImportCells
    \/ Cell4_M_i
    \/ Cell5_infinite_dmrg
    \/ Cell6_7_display
    \/ Cell8_extract_segment
    \/ Cell9_segment_dmrg
    \/ Cell10_11_display
    \/ Cell12_halfinf
    \/ Cell13_halfinf_dmrg
    \/ Cell14_16_display
    \/ Cell17_M_s_defect
    \/ Cell18_defect_dmrg
    \/ Cell19_20_display

NotebookSpec == NotebookInit /\ [][NotebookNext]_vars

----------------------------------------------------------------------------
(* Properties.                                                             *)

Root12 == File("", "12_dmrg_mixer", "ipynb")
Root14 == File("", "14_segment_half_infinite", "ipynb")
RootTemplate == File("", "_template", "ipynb")
Sub12 == File("sub", "12_dmrg_mixer", "ipynb")

PytestStepRan == step = 5
JobStarted == status \in { "in_progress", "success", "failure" }
RunStarted == status \in { "queued", "skipped", "in_progress", "success", "failure" }

\* C1 as stated: once the step "Run pytest on notebooks" has run, every
\* notebook file in the repository root has been executed.
C1_EveryRootNotebookRun ==
    PytestStepRan =>
        \A f \in workspace : (f.dir = "" /\ f.ext = "ipynb") => f \in executed

\* C1 amended: once the step "Run pytest on notebooks" has run, every notebook
\* file in the repository root other than 12_dmrg_mixer.ipynb and
\* 14_segment_half_infinite.ipynb has been executed.
C1_EveryRootNotebookButTwoRun ==
    PytestStepRan =>
        \A f \in workspace :
            (f.dir = "" /\ f.ext = "ipynb"
                /\ f.stem \notin { "12_dmrg_mixer", "14_segment_half_infinite" })
            => f \in executed

C1_Witness ==
    /\ PytestStepRan
    /\ Root12 \in workspace
    /\ RootTemplate \in workspace
    /\ RootTemplate \in executed

\* C2: the root notebooks 12_dmrg_mixer.ipynb and 14_segment_half_infinite.ipynb
\* are never executed, and once the pytest step has run the executed notebooks
\* are exactly the checked-out notebooks minus these two (_template.ipynb and
\* notebooks in subdirectories included).
C2_ExactlyCollectedMinusTwo ==
    /\ Root12 \notin executed
    /\ Root14 \notin executed
    /\ PytestStepRan =>
           /\ executed = { f \in workspace : f.ext = "ipynb" } \ { Root12, Root14 }
           /\ (RootTemplate \in workspace => RootTemplate \in executed)

C2_Witness ==
    /\ PytestStepRan
    /\ { Root12, Root14, RootTemplate, Sub12 } \subseteq workspace
    /\ executed = { RootTemplate, Sub12 }

\* C3: a workflow run exists only for a push to the branch main or for a
\* pull_request event of type opened, synchronize, reopened or
\* ready_for_review.
C3_StartedOnlyByPushMainOrPR ==
    RunStarted =>
        \/ event.name = "push" /\ event.ref = Branch("main")
        \/ /\ event.name = "pull_request"
           /\ event.action \in { "opened", "synchronize", "reopened", "ready_for_review" }

C3_Witness ==
    /\ status = "in_progress"
    /\ event.name = "pull_request"
    /\ event.action = "synchronize"
    /\ pr.state = "open"

\* C4: a pull_request event of a draft pull request never starts the build
\* job and runs no notebook; a ready_for_review event is never skipped; and a
\* queued run for a pull request that is not a draft leads to a started
\* build job.
C4_DraftGate ==
    /\ []((event.name = "pull_request" /\ event.pull_request.draft)
            => (~ JobStarted /\ executed = {}))
    /\ []((event.name = "pull_request" /\ event.action = "ready_for_review")
            => (~ event.pull_request.draft /\ status # "skipped" /\ RunStarted))
    /\ ((event.name = "pull_request" /\ ~ event.pull_request.draft /\ status = "queued")
            ~> JobStarted)

C4_Witness ==
    /\ event.name = "pull_request"
    /\ event.action = "ready_for_review"
    /\ status = "success"

\* C5: the run for a push to main is never skipped: it is queued, in
\* progress or finished by its steps.
C5_PushToMainRunsBuild ==
    (event.name = "push" /\ event.ref = Branch("main"))
        => status \in { "queued", "in_progress", "success", "failure" }

C5_Witness ==
    /\ event.name = "push"
    /\ event.ref = Branch("main")
    /\ status = "in_progress"
    /\ step = 1

\* C6: when the segment state and the boundary environments exist, the
\* infinite engine's run has completed and both come from its converged state,
\* both for the (first, last) of the segment model; and the segment engine
\* holds exactly these environments as its initial environment data.
C6_SegmentEnvironmentsFixed ==
    /\ ns.psi0_s.set =>
           /\ ns.eng0_i.finished
           /\ ns.psi0_s.converged /\ ns.psi0_s.gs_sweeps = ns.eng0_i.sweeps
           /\ ns.init_env_data.set
           /\ ns.init_env_data.converged /\ ns.init_env_data.gs_sweeps = ns.eng0_i.sweeps
           /\ ns.M_s.set
           /\ <<ns.psi0_s.first, ns.psi0_s.last>> = <<ns.M_s.first, ns.M_s.last>>
           /\ <<ns.init_env_data.first, ns.init_env_data.last>> = <<ns.M_s.first, ns.M_s.last>>
    /\ ns.eng.set =>
           /\ ns.psi0_s.set
           /\ ns.eng.init_env_data = ns.init_env_data
           /\ ns.eng.init_env_data.LP = "env"
           /\ ns.eng.init_env_data.RP = "env"

C6_Witness ==
    /\ ns.eng.set
    /\ ns.eng.finished
    /\ ns.init_env_data_halfinf.set

\* C7: psi1_s, psi_halfinf and psi_defect have 20 sites; every displayed
\* entanglement entropy of them has 21 entries, every displayed expectation
\* value has 20 entries, and the displayed psi_halfinf.L is 20.
C7_SegmentHas20Sites ==
    /\ \A psi \in { ns.psi1_s, ns.psi_halfinf, ns.psi_defect } : psi.set => psi.L = 20
    /\ \A c \in { 10, 11, 14, 19 } : out[c] # -1 => out[c] = 21
    /\ \A c \in { 15, 16, 20 } : out[c] # -1 => out[c] = 20

C7_Witness ==
    /\ kernel = "done"
    /\ ns.psi_defect.set
    /\ out[10] = 21 /\ out[14] = 21 /\ out[19] = 21
    /\ out[15] = 20 /\ out[16] = 20 /\ out[20] = 20

====
